---- MODULE Spec2Model ----
(***************************************************************************)
(* Model of app-GTEx.py: the ontology-term similarity graph pipeline       *)
(* (find_all_paths, get_ancestors, get_comm_ancestors,                     *)
(* get_cytoscape_components, draw_graph1, draw_graph2).                    *)
(*                                                                         *)
(* Conventions.  Similarities are tenths (0.5 is 5, 1.0 is 10).  Python    *)
(* positions start at 0, sequences here start at 1: the matrix index of    *)
(* a row (column ind) and the vertex number of a group member are kept     *)
(* 0-based as in the code and shifted by one only where a sequence is      *)
(* indexed.  An exception raised by the code ends the run with status the  *)
(* exception's name and no payload.                                        *)
(***************************************************************************)
EXTENDS Integers, Sequences, FiniteSets, TLC

VARIABLES annot, roots, wsem_sim, wilcox_results, onto_graph, run, call

vars == <<annot, roots, wsem_sim, wilcox_results, onto_graph, run, call>>

inputs == <<annot, roots, wsem_sim, wilcox_results, onto_graph>>

(***************************************************************************)
(* Bounds of the model and constants of the program.                       *)
(***************************************************************************)
\* number of ontology terms of the small fixtures
MaxTerms == 3

\* number of ontology terms of the large fixture (one slider step)
BigTerms == 50

\* number of slider steps the range slider can be moved to (the app: 10)
MaxSteps == 1

\* similarity threshold 0.5, in tenths
Threshold == 5

\* the size of the Dark24 palette as the colour code writes it
PaletteLimit == 24

\* the step of the rank-window slider
SliderStep == 50

\* factor of the edge width
WeightScale == 5

(***************************************************************************)
(* Generic helpers standing for Python built-ins.                          *)
(***************************************************************************)
Range(s) == {s[i] : i \in DOMAIN s}

InSeq(x, s) == \E i \in DOMAIN s : s[i] = x

Min(a, b) == IF a <= b THEN a ELSE b

\* s[lo:hi] of Python, lo and hi 0-based and clipped to the length
Slice(s, lo, hi) ==
    LET l == Min(lo, Len(s))
        h == Min(hi, Len(s))
    IN  IF h <= l THEN <<>> ELSE [i \in 1..(h - l) |-> s[l + i]]

\* the ascending sequence of a finite set of integers
SortedSeq(S) ==
    [k \in 1..Cardinality(S) |->
        CHOOSE x \in S : Cardinality({y \in S : y < x}) = k - 1]

\* the elements of s at the positions in P, order kept
AtPositions(s, P) ==
    CHOOSE t \in {[k \in DOMAIN pos |-> s[pos[k]]] : pos \in {SortedSeq(P)}} : TRUE

\* [x for x in s if keep[x]], order kept
FilterSeq(s, keep) == AtPositions(s, {i \in DOMAIN s : s[i] \in keep})

\* itertools.chain.from_iterable
RECURSIVE Chain(_)
Chain(ss) ==
    IF ss = <<>> THEN <<>>
    ELSE IF Len(ss) = 1 THEN ss[1]
    ELSE LET mid == Len(ss) \div 2
         IN  Chain(SubSeq(ss, 1, mid)) \o Chain(SubSeq(ss, mid + 1, Len(ss)))

\* the elements of s in first-appearance order (pandas unique, dict keys)
Unique(s) ==
    AtPositions(s, {i \in DOMAIN s : \A j \in 1..(i - 1) : s[j] # s[i]})

\* every way to pick one element of each set of a sequence of sets
RECURSIVE Picks(_)
Picks(sets) ==
    IF sets = <<>> THEN {<<>>}
    ELSE IF Len(sets) = 1 THEN {<<x>> : x \in sets[1]}
    ELSE LET mid == Len(sets) \div 2
         IN  {p \o q : p \in Picks(SubSeq(sets, 1, mid)),
                       q \in Picks(SubSeq(sets, mid + 1, Len(sets)))}

(***************************************************************************)
(* find_all_paths, get_ancestors, get_comm_ancestors (lines 106-130).      *)
(***************************************************************************)
RECURSIVE find_all_paths(_, _, _, _)
RECURSIVE find_all_paths_loop(_, _, _, _, _)

\* the for loop of find_all_paths over graph[start], from its k-th entry on
find_all_paths_loop(graph, nbrs, k, end, path) ==
    IF k > Len(nbrs) THEN <<>>
    ELSE LET node == nbrs[k]
             new_paths == IF ~InSeq(node, path)
                          THEN find_all_paths(graph, node, end, path)
                          ELSE <<>>
         IN  new_paths \o find_all_paths_loop(graph, nbrs, k + 1, end, path)

\* variant: the test 'start not in graph' comes before 'start == end'
find_all_paths_keys_first(graph, start, end, path0) ==
    LET path == Append(path0, start)
    IN  IF start \notin DOMAIN graph THEN <<>>
        ELSE IF start = end THEN <<path>>
        ELSE find_all_paths_loop(graph, graph[start], 1, end, path)

find_all_paths(graph, start, end, path0) ==
    LET path == Append(path0, start)
    IN  IF start = end THEN <<path>>
        ELSE IF start \notin DOMAIN graph THEN <<>>
        ELSE find_all_paths_loop(graph, graph[start], 1, end, path)

\* variant: the self-fallback of the last line is missing
get_ancestors_no_fallback(node, rts, graph) ==
    LET paths == [r \in DOMAIN rts |-> find_all_paths(graph, node, rts[r], <<>>)]
        paths_filt == Chain(Chain([r \in DOMAIN rts |->
                          IF Len(paths[r]) > 0 THEN <<paths[r]>> ELSE <<>>]))
    IN  UNION {Range(paths_filt[i]) : i \in DOMAIN paths_filt}

get_ancestors(node, rts, graph) ==
    LET paths == [r \in DOMAIN rts |-> find_all_paths(graph, node, rts[r], <<>>)]
        paths_filt == Chain(Chain([r \in DOMAIN rts |->
                          IF Len(paths[r]) > 0 THEN <<paths[r]>> ELSE <<>>]))
        ancestors == UNION {Range(paths_filt[i]) : i \in DOMAIN paths_filt}
    IN  IF Cardinality(ancestors) > 0 THEN ancestors ELSE {node}

get_comm_ancestors(leaves, rts, graph) ==
    LET ancestors == [i \in DOMAIN leaves |-> get_ancestors(leaves[i], rts, graph)]
    IN  {x \in ancestors[1] : \A i \in DOMAIN leaves : x \in ancestors[i]}

(***************************************************************************)
(* get_cytoscape_components, lines 146-160: the thresholded similarity     *)
(* graph of a group.  A group is the sequence of its rows.                 *)
(***************************************************************************)
\* variant: the threshold also zeroes a similarity of exactly 0.5
threshold_strict(v) == IF v <= Threshold THEN 0 ELSE v

\* group_sims[group_sims < 0.5] = 0, for one entry
threshold(v) == IF v < Threshold THEN 0 ELSE v

\* wsem_sim[group.ind,:][:,group.ind] after thresholding; i, j are vertex
\* numbers (0-based positions in the group)
group_sims(group, sim, i, j) ==
    threshold(sim[<<group[i + 1].ind, group[j + 1].ind>>])

\* Graph.Weighted_Adjacency(group_sims, mode='undirected', loops=False)
\* followed by get_edge_dataframe(): one edge per unordered pair of distinct
\* vertices with a non-zero entry, weighted by the entry
Weighted_Adjacency(group, sim) ==
    LET n == Len(group)
        w(i, j) == IF group_sims(group, sim, i, j) >= group_sims(group, sim, j, i)
                   THEN group_sims(group, sim, i, j)
                   ELSE group_sims(group, sim, j, i)
        pair(k) == <<(k - 1) \div n, (k - 1) % n>>
        kept == {k \in 1..(n * n) : pair(k)[1] < pair(k)[2]
                                     /\ w(pair(k)[1], pair(k)[2]) # 0}
    IN  CHOOSE edge_df \in
            {[e \in DOMAIN order |->
                 [source |-> pair(order[e])[1], target |-> pair(order[e])[2],
                  weight |-> w(pair(order[e])[1], pair(order[e])[2])]] :
                order \in {SortedSeq(kept)}} : TRUE

\* es = [(group.id.iloc[source], group.id.iloc[target], weight) ...]
edge_tuples(group, edge_df) ==
    [e \in DOMAIN edge_df |-> <<group[edge_df[e].source + 1].id,
                                group[edge_df[e].target + 1].id,
                                edge_df[e].weight>>]

\* group['x'], group['y'] = np.array(layout.coords).T : the transposed
\* coordinate array has two rows for a graph with vertices and none for the
\* empty graph, whose unpacking into two names raises ValueError
layout_unpacks(group) == Len(group) > 0

(***************************************************************************)
(* graph.community_multilevel(), line 163.  The library's result is        *)
(* modelled by what it guarantees: vertices only ever join a neighbour's   *)
(* community, so every community lies inside one connected component; a    *)
(* vertex without edges is alone; the two ends of an isolated edge are     *)
(* always merged; membership ids are 0..k-1 in order of first appearance.  *)
(***************************************************************************)
Neighbours(v, edge_df) ==
    {edge_df[e].target : e \in {d \in DOMAIN edge_df : edge_df[d].source = v}}
    \cup {edge_df[e].source : e \in {d \in DOMAIN edge_df : edge_df[d].target = v}}

RECURSIVE Component(_, _)
Component(S, edge_df) ==
    LET T == S \cup UNION {Neighbours(v, edge_df) : v \in S}
    IN  IF T = S THEN S ELSE Component(T, edge_df)

RECURSIVE Partitions(_)
Partitions(S) ==
    IF S = {} THEN {{}}
    ELSE LET x == CHOOSE y \in S : \A z \in S : y >= z
         IN  UNION {{P \cup {{x}}} \cup {(P \ {B}) \cup {B \cup {x}} : B \in P} :
                       P \in Partitions(S \ {x})}

\* the membership vector of a partition: communities numbered from 0 in the
\* order of their first vertex
membership_of(n, P) ==
    LET least(B) == CHOOSE x \in B : \A y \in B : x <= y
    IN  CHOOSE m \in
            {[i \in 1..n |-> Cardinality({f \in Range(first) : f < first[i]})] :
                first \in {[i \in 1..n |->
                              least(CHOOSE C \in P : (i - 1) \in C)]}} : TRUE

community_multilevel(n, edge_df) ==
    LET V == 0..(n - 1)
        linked == {v \in V : Neighbours(v, edge_df) # {}}
        ok(P, comp) == \A B \in P :
                    /\ \A v \in B : B \subseteq comp[v]
                    /\ \A v \in B : Cardinality(comp[v]) = 2 => B = comp[v]
    IN  UNION {{membership_of(n, P \cup {{v} : v \in V \ linked}) :
                   P \in {Q \in Partitions(linked) : ok(Q, comp)}} :
               comp \in {[v \in linked |-> Component({v}, edge_df)]}}

(***************************************************************************)
(* Colour mapping, lines 166-173.                                          *)
(***************************************************************************)
Dark24 ==
    <<"#2E91E5", "#E15F99", "#1CA71C", "#FB0D0D", "#DA16FF", "#222A2A",
      "#B68100", "#750D86", "#EB663B", "#511CFB", "#00A08B", "#FB00D1",
      "#FC0080", "#B2828D", "#6C7C32", "#778AAE", "#862A16", "#A777F1",
      "#620042", "#1616A7", "#DA60CA", "#6C4516", "#0D2A63", "#AF0038">>

\* the list colors for n_comm communities
colors_for(n_comm) ==
    IF n_comm <= PaletteLimit THEN Slice(Dark24, 0, n_comm)
    ELSE Dark24 \o Slice(Dark24, 0, n_comm - PaletteLimit)

\* color_map = dict(zip(list(set(membership)), colors)): zip stops at the
\* shorter of the two
color_map_of(membership) ==
    CHOOSE color_map \in
        {[c \in {keys[k] : k \in 1..Min(Len(keys), Len(colors))} |->
             colors[CHOOSE k \in DOMAIN keys : keys[k] = c]] :
            keys \in {SortedSeq(Range(membership))},
            colors \in {colors_for(Cardinality(Range(membership)))}} : TRUE

(***************************************************************************)
(* Community members, representatives and labels, lines 175-205.           *)
(***************************************************************************)
\* comm_members, as the sequence of its items (key, member ids) in the
\* order of group.community.unique(), communities of one member dropped
comm_members_of(group, membership) ==
    LET ids(c) == LET pos == SortedSeq({i \in DOMAIN group : membership[i] = c})
                  IN  [k \in DOMAIN pos |-> group[pos[k]].id]
    IN  CHOOSE cm \in
            {FilterSeq(all, {it \in Range(all) : Len(it.members) > 1}) :
                all \in {[k \in DOMAIN keys |->
                            [key |-> keys[k], members |-> ids(keys[k])]] :
                         keys \in {Unique(membership)}}} : TRUE

\* the rows sort_values(key, ascending=False).iloc[0] can return: a single
\* sort key is sorted by an unstable sort, so any row with the largest key
first_by_genes(rows) ==
    {r \in Range(rows) : \A q \in Range(rows) : q.genes <= r.genes}

\* variant: depth sorted ascending, the shallowest ancestor comes first
first_by_depth_genes_shallow(rows) ==
    LET before(a, b) == \/ rows[a].depth < rows[b].depth
                        \/ /\ rows[a].depth = rows[b].depth
                           /\ rows[a].genes > rows[b].genes
                        \/ /\ rows[a].depth = rows[b].depth
                           /\ rows[a].genes = rows[b].genes
                           /\ a < b
        i == CHOOSE a \in DOMAIN rows : \A b \in DOMAIN rows \ {a} : before(a, b)
    IN  rows[i]

\* the row sort_values(['depth', 'genes'], ascending=[False, False]).iloc[0]
\* returns: a stable sort on both keys, ties keep the table's order
first_by_depth_genes(rows) ==
    LET before(a, b) == \/ rows[a].depth > rows[b].depth
                        \/ /\ rows[a].depth = rows[b].depth
                           /\ rows[a].genes > rows[b].genes
                        \/ /\ rows[a].depth = rows[b].depth
                           /\ rows[a].genes = rows[b].genes
                           /\ a < b
        i == CHOOSE a \in DOMAIN rows : \A b \in DOMAIN rows \ {a} : before(a, b)
    IN  rows[i]

\* table[table.col.isin(vals)], rows in table order
rows_isin(table, col, vals) ==
    CHOOSE rows \in
        {[k \in DOMAIN pos |-> table[pos[k]]] :
            pos \in {SortedSeq({i \in DOMAIN table : table[i][col] \in vals})}} :
        TRUE

\* variant: genes sorted ascending, the member with the fewest genes is taken
representative_options_fewest(group, members) ==
    LET rows == rows_isin(group, "id", Range(members))
    IN  {r.id : r \in {q \in Range(rows) : \A t \in Range(rows) : q.genes <= t.genes}}

\* the ids line 182 can append for one community
representative_options(group, members) ==
    {r.id : r \in first_by_genes(rows_isin(group, "id", Range(members)))}

\* the labels lines 191-196 can append for one community with common
\* ancestors v; empty when .iloc[0] has no row to return (IndexError)
label_options(ann, v, members) ==
    IF Cardinality(v) = 1
    THEN UNION {IF rows = <<>> THEN {} ELSE {rows[1].GO_term} :
                   rows \in {rows_isin(ann, "GO_ID", v)}}
    ELSE IF Cardinality(v) = 0
    THEN {r.GO_term : r \in first_by_genes(rows_isin(ann, "GO_ID", Range(members)))}
    ELSE UNION {IF rows = <<>> THEN {} ELSE {first_by_depth_genes(rows).GO_term} :
                   rows \in {rows_isin(ann, "GO_ID", v)}}

\* dict(zip(keys, values)) read at key k, default when k is no key (a later
\* pair with the same key wins)
zip_get(keys, values, k, default) ==
    LET m == Min(Len(keys), Len(values))
        hits == {i \in 1..m : keys[i] = k}
    IN  IF hits = {} THEN default
        ELSE values[CHOOSE i \in hits : \A j \in hits : j <= i]

(***************************************************************************)
(* The cytoscape elements and the stylesheet, lines 207-264.  A node's     *)
(* position comes from the layout and its size is log(genes + 2) * 10; the *)
(* model keeps the argument of the logarithm and leaves the coordinates    *)
(* out.                                                                    *)
(***************************************************************************)
node_of(row, community, representatives, rep_labels, comm_keys) ==
    [id |-> row.id,
     label |-> row.term,
     genes |-> row.genes + 2,
     representative |-> InSeq(row.id, representatives),
     rep_label |-> zip_get(representatives, rep_labels, row.id, "NaN"),
     rep_label_hover |-> zip_get(comm_keys, rep_labels, community, "None"),
     classes |-> ToString(community)]

\* 'classes': str(group[group.id == e[0]].community.iloc[0])
edge_of(e, group, membership) ==
    [source |-> e[1], target |-> e[2], weight |-> e[3] * WeightScale,
     classes |-> ToString(membership[CHOOSE i \in DOMAIN group :
                    /\ group[i].id = e[1]
                    /\ \A j \in DOMAIN group : group[j].id = e[1] => i <= j])]

stylesheet_of(color_map) ==
    LET keys == SortedSeq(DOMAIN color_map)
    IN  <<[selector |-> "node", color |-> "none"],
          [selector |-> "edge", color |-> "none"],
          [selector |-> "[representative == True]", color |-> "none"]>>
        \o [k \in DOMAIN keys |->
               [selector |-> "." \o ToString(keys[k]), color |-> color_map[keys[k]]]]

(***************************************************************************)
(* get_cytoscape_components as a whole: the set of results one call can    *)
(* end with.  A result holds the function's locals at its end and status   *)
(* "ok", or the name of the exception that ended it.                       *)
(***************************************************************************)
Locals0 ==
    [status |-> "none", group |-> <<>>, edge_df |-> <<>>,
     es |-> <<>>, membership |-> <<>>, color_map |-> <<>>,
     comm_members |-> <<>>, representatives |-> <<>>, comm_ancestors |-> <<>>,
     rep_labels |-> <<>>, nodes |-> <<>>, edges |-> <<>>, stylesheet |-> <<>>]

\* variant: nodes are built from the edge list, so isolated members are lost
nodes_of_linked(base, representatives, rep_labels) ==
    LET linked == SortedSeq({i \in DOMAIN base.group :
                      \E e \in DOMAIN base.es :
                          base.group[i].id \in {base.es[e][1], base.es[e][2]}})
    IN  [k \in DOMAIN linked |->
            node_of(base.group[linked[k]], base.membership[linked[k]],
                    representatives, rep_labels,
                    [c \in DOMAIN base.comm_members |-> base.comm_members[c].key])]

\* nodes = [...], lines 208-218
nodes_of(base, representatives, rep_labels) ==
    [i \in DOMAIN base.group |->
        node_of(base.group[i], base.membership[i], representatives, rep_labels,
                [k \in DOMAIN base.comm_members |-> base.comm_members[k].key])]

\* edges = [...], lines 220-221
edges_of(base) ==
    [e \in DOMAIN base.es |-> edge_of(base.es[e], base.group, base.membership)]

\* lines 198-264, with every local computed
payload(base, representatives, rep_labels) ==
    [base EXCEPT
        !.status = "ok",
        !.representatives = representatives,
        !.rep_labels = rep_labels,
        !.nodes = nodes_of(base, representatives, rep_labels),
        !.edges = edges_of(base),
        !.stylesheet = stylesheet_of(base.color_map)]

\* lines 175-264, for one colour mapping that covers every community
after_colours(base, ann, rts, graph) ==
    UNION {
        UNION {
            IF \E k \in DOMAIN cm : lab_opts[k] = {}
            THEN {[base EXCEPT !.status = "IndexError", !.comm_members = cm,
                               !.comm_ancestors = ca]}
            ELSE {payload(labelled, reps, labs) :
                     labelled \in {[base EXCEPT !.comm_members = cm,
                                                !.comm_ancestors = ca]},
                     reps \in Picks([k \in DOMAIN cm |->
                                 representative_options(base.group, cm[k].members)]),
                     labs \in Picks(lab_opts)} :
            lab_opts \in {[k \in DOMAIN cm |->
                             label_options(ann, ca[k], cm[k].members)]}} :
        cm \in {comm_members_of(base.group, base.membership)},
        ca \in {[k \in DOMAIN comm_members_of(base.group, base.membership) |->
                   get_comm_ancestors(
                       comm_members_of(base.group, base.membership)[k].members,
                       rts, graph)]}}

\* lines 166-264, for one result of the community detection
after_community(base, membership, ann, rts, graph) ==
    UNION {
        IF \E i \in DOMAIN membership : membership[i] \notin DOMAIN color_map
        THEN {[base EXCEPT !.status = "KeyError", !.membership = membership,
                           !.color_map = color_map]}
        ELSE UNION {after_colours(coloured, ann, rts, graph) :
                       coloured \in {[base EXCEPT !.membership = membership,
                                                  !.color_map = color_map]}} :
        color_map \in {color_map_of(membership)}}

get_cytoscape_components(group, sim, ann, rts, graph) ==
    UNION {
        IF ~layout_unpacks(group)
        THEN {[built EXCEPT !.status = "ValueError"]}
        ELSE UNION {after_community(built, m, ann, rts, graph) :
                       m \in community_multilevel(Len(group), built.edge_df)} :
        built \in {[Locals0 EXCEPT !.group = group, !.edge_df = edge_df,
                                   !.es = edge_tuples(group, edge_df)] :
                      edge_df \in {Weighted_Adjacency(group, sim)}}}

(***************************************************************************)
(* draw_graph1 and draw_graph2, lines 621-649.                             *)
(***************************************************************************)
\* sort_values(['rank', 'hits', 'med_stat'], ascending=(True, False, False)):
\* a stable sort on the three keys
sort_rank_hits_med(rows) ==
    LET before(a, b) ==
            \/ rows[a].rank < rows[b].rank
            \/ /\ rows[a].rank = rows[b].rank
               /\ \/ rows[a].hits > rows[b].hits
                  \/ /\ rows[a].hits = rows[b].hits
                     /\ \/ rows[a].med_stat > rows[b].med_stat
                        \/ /\ rows[a].med_stat = rows[b].med_stat
                           /\ a < b
        place == [a \in DOMAIN rows |->
                    1 + Cardinality({b \in DOMAIN rows : b # a /\ before(b, a)})]
        at == [k \in DOMAIN rows |-> CHOOSE a \in DOMAIN rows : place[a] = k]
    IN  [k \in DOMAIN rows |-> rows[at[k]]]

\* the rank window of a tissue: the rows 'values[0]:values[1]' of its
\* sorted results
data_sig_of(results, tissue, values) ==
    Slice(sort_rank_hits_med(rows_isin(results, "tissue", {tissue})),
          values[1], values[2])

\* the positions a range slider with min=0, step=50 can report
SliderValues ==
    {<<p[1] * SliderStep, p[2] * SliderStep>> :
        p \in {q \in (0..MaxSteps) \X (0..MaxSteps) : q[1] <= q[2]}}

draw_graph(tissue, values) ==
    /\ run.status = "none"
    /\ \E data_sig \in {data_sig_of(wilcox_results, tissue, values)} :
          run' \in get_cytoscape_components(data_sig, wsem_sim, annot, roots,
                                            onto_graph)
    /\ UNCHANGED <<inputs, call>>

\* the callback of go-graph1
draw_graph1(tissue, values) == draw_graph(tissue, values)

\* the callback of go-graph2
draw_graph2(tissue, values) == draw_graph(tissue, values)

\* 'return elements, stylesheet' (or the exception leaving the callback):
\* the request is over and its locals are gone
end_request ==
    /\ run.status # "none"
    /\ run' = Locals0
    /\ UNCHANGED <<inputs, call>>

(***************************************************************************)
(* The loaded data (lines 58-71): fixtures the initial states draw from.   *)
(***************************************************************************)
GO_ID(i) == "GO:" \o ToString(i)

GO_term(i) == "term " \o ToString(i)

Tissues == {"Brain", "Liver"}

DepthVals == {0, 1}

GeneVals == {1, 2}

SimVals == {3, 5, 8}

DiagVals == {0, 10}

\* annot: one row per ontology term, in the order of the similarity matrix
AnnotOf(n, depth, genes) ==
    [i \in 1..n |-> [GO_ID |-> GO_ID(i), GO_term |-> GO_term(i),
                     depth |-> depth[i], genes |-> genes[i]]]

\* roots = annot[annot.depth == 0].GO_ID.tolist()
RootsOf(a) ==
    LET idx == SortedSeq({i \in DOMAIN a : a[i].depth = 0})
    IN  [k \in DOMAIN idx |-> a[idx[k]].GO_ID]

\* adjacency lists over the n terms: a term is no key, or maps to a list of
\* other terms
OntoGraphs(n) ==
    LET ids == {GO_ID(i) : i \in 1..n}
        absent == <<"absent">>
        lists(i) == {[k \in DOMAIN SortedSeq(S) |-> GO_ID(SortedSeq(S)[k])] :
                        S \in SUBSET ((1..n) \ {i})} \cup {absent}
        total == {f \in [1..n -> UNION {lists(i) : i \in 1..n}] :
                        \A i \in 1..n : f[i] \in lists(i)}
    IN  {[id \in {GO_ID(i) : i \in {j \in 1..n : f[j] # absent}} |->
              f[CHOOSE i \in 1..n : GO_ID(i) = id]] : f \in total}

\* depths that never decrease along the list of terms
LevelDepths(n) ==
    {d \in [1..n -> DepthVals] : \A i, j \in 1..n : i < j => d[i] <= d[j]}

\* gene counts that never increase along the list of terms
LevelGenes(n) ==
    {g \in [1..n -> GeneVals] : \A i, j \in 1..n : i < j => g[i] >= g[j]}

NoRun == Locals0

NoCall == [node |-> "none", result |-> {}]

(***************************************************************************)
(* Specification of the ontology queries alone: any adjacency (cyclic,     *)
(* with missing keys), any root set, get_ancestors called on any term.     *)
(***************************************************************************)
InitAnc ==
    /\ \E depth \in LevelDepths(MaxTerms) :
          annot = AnnotOf(MaxTerms, depth, [i \in 1..MaxTerms |-> 1])
    /\ roots = RootsOf(annot)
    /\ onto_graph \in OntoGraphs(MaxTerms)
    /\ wsem_sim = [p \in (0..(MaxTerms - 1)) \X (0..(MaxTerms - 1)) |-> 0]
    /\ wilcox_results = <<>>
    /\ run = NoRun
    /\ call = NoCall

call_get_ancestors(node) ==
    /\ call.node = "none"
    /\ call' = [node |-> node, result |-> get_ancestors(node, roots, onto_graph)]
    /\ UNCHANGED <<inputs, run>>

NextAnc == \E i \in 1..(MaxTerms + 1) : call_get_ancestors(GO_ID(i))

SpecAnc == InitAnc /\ [][NextAnc]_vars

(***************************************************************************)
(* Fixtures of the pipeline specifications.                                *)
(***************************************************************************)
\* wilcox_results: a row per term for Brain, and for the first k terms for
\* Liver; ranks, hits and statistics tie so that all three sort keys decide
WilcoxOf(a, k) ==
    LET n == Len(a)
        row(t, i) == [tissue |-> t, id |-> a[i].GO_ID, term |-> a[i].GO_term,
                      ind |-> i - 1, genes |-> a[i].genes,
                      rank |-> (n - i) \div 3, hits |-> i % 2, med_stat |-> i]
    IN  [i \in 1..n |-> row("Brain", i)] \o [i \in 1..k |-> row("Liver", i)]

\* symmetric similarity matrices over n terms (indices 0..n-1)
SimMatrices(n, offdiag, diag) ==
    LET pairs == {p \in (0..(n - 1)) \X (0..(n - 1)) : p[1] < p[2]}
    IN  {[p \in (0..(n - 1)) \X (0..(n - 1)) |->
             IF p[1] = p[2] THEN d
             ELSE IF p[1] < p[2] THEN u[p] ELSE u[<<p[2], p[1]>>]] :
            u \in [pairs -> offdiag], d \in diag}

\* every term but the first has the first as its only parent
StarGraph(n) ==
    [id \in {GO_ID(i) : i \in 1..n} |->
        IF id = GO_ID(1) THEN <<>> ELSE <<GO_ID(1)>>]

\* acyclic adjacency lists: parents have smaller indices
DagGraphs(n) ==
    {g \in OntoGraphs(n) :
        /\ DOMAIN g = {GO_ID(i) : i \in 1..n}
        /\ \A i \in 1..n : \A j \in i..n : ~InSeq(GO_ID(j), g[GO_ID(i)])}

StarDepth(n) == [i \in 1..n |-> IF i = 1 THEN 0 ELSE 1]

MixedGenes(n) == [i \in 1..n |-> 1 + (i % 2)]

\* the initial states all pipeline specifications share
Loaded(a, sim, graph, k) ==
    /\ annot = a
    /\ roots = RootsOf(a)
    /\ wsem_sim = sim
    /\ onto_graph = graph
    /\ wilcox_results = WilcoxOf(a, k)
    /\ run = NoRun
    /\ call = NoCall

Next ==
    \/ \E tissue \in Tissues, values \in SliderValues : draw_graph1(tissue, values)
    \/ \E tissue \in Tissues, values \in SliderValues : draw_graph2(tissue, values)
    \/ end_request

(***************************************************************************)
(* Spec: any symmetric similarity matrix over a fixed small ontology.      *)
(***************************************************************************)
Init ==
    \E sim \in SimMatrices(MaxTerms, SimVals, DiagVals) :
        Loaded(AnnotOf(MaxTerms, StarDepth(MaxTerms), MixedGenes(MaxTerms)),
               sim, StarGraph(MaxTerms), MaxTerms - 1)

Spec == Init /\ [][Next]_vars

(***************************************************************************)
(* SpecLabel: all terms pairwise similar, so that every partition of the   *)
(* group is a possible community structure; any acyclic ontology whose     *)
(* terms are listed parents first, no term shallower than a term listed    *)
(* before it and none with more genes than a term listed before it.       *)
(***************************************************************************)
\* the window of the top terms
TopWindow == <<0, MaxSteps * SliderStep>>

NextLabel ==
    \/ \E tissue \in Tissues : draw_graph1(tissue, TopWindow)
    \/ \E tissue \in Tissues : draw_graph2(tissue, TopWindow)
    \/ end_request

InitLabel ==
    \E graph \in DagGraphs(MaxTerms), depth \in LevelDepths(MaxTerms),
       genes \in LevelGenes(MaxTerms), sim \in SimMatrices(MaxTerms, {8}, {10}) :
        Loaded(AnnotOf(MaxTerms, depth, genes), sim, graph, 0)

SpecLabel == InitLabel /\ [][NextLabel]_vars

(***************************************************************************)
(* SpecOnto: exactly one pair of terms is similar, so that the community   *)
(* structure is certain; any adjacency, cyclic or with missing keys.       *)
(***************************************************************************)
OnePairMatrices(n) ==
    {m \in SimMatrices(n, {3, 8}, {10}) :
        Cardinality({p \in DOMAIN m : p[1] < p[2] /\ m[p] = 8}) = 1}

InitOnto ==
    \E depth \in [1..MaxTerms -> DepthVals], graph \in OntoGraphs(MaxTerms),
       sim \in OnePairMatrices(MaxTerms) :
        Loaded(AnnotOf(MaxTerms, depth, MixedGenes(MaxTerms)), sim, graph, 0)

SpecOnto == InitOnto /\ [][Next]_vars

(***************************************************************************)
(* SpecBig: one slider step of terms; the first p pairs of terms are       *)
(* similar and nothing else is, so that the community structure is         *)
(* certain and has up to BigTerms communities.                             *)
(***************************************************************************)
PairedMatrix(n, p) ==
    [q \in (0..(n - 1)) \X (0..(n - 1)) |->
        IF q[1] = q[2] THEN 10
        ELSE IF q[1] \div 2 = q[2] \div 2 /\ q[1] \div 2 < p THEN 8 ELSE 3]

\* sizes of the Liver group around the palette size and twice the palette
\* size
LiverSizes ==
    {0, 1, PaletteLimit - 1, PaletteLimit, PaletteLimit + 1,
     2 * PaletteLimit - 1, 2 * PaletteLimit, 2 * PaletteLimit + 1, BigTerms}

InitBig ==
    \E p \in 0..2, k \in LiverSizes :
        Loaded(AnnotOf(BigTerms, StarDepth(BigTerms), MixedGenes(BigTerms)),
               PairedMatrix(BigTerms, p), StarGraph(BigTerms), k)

SpecBig == InitBig /\ [][Next]_vars

(***************************************************************************)
(* Properties.                                                             *)
(***************************************************************************)
\* the similarity of the group members at vertex numbers i and j
SimOf(i, j) == wsem_sim[<<run.group[i + 1].ind, run.group[j + 1].ind>>]

\* the edges of the built graph between vertices i and j
EdgesBetween(i, j) ==
    {e \in DOMAIN run.edge_df :
        {run.edge_df[e].source, run.edge_df[e].target} = {i, j}}

\* C1: in the graph built for any group, two distinct members are joined by
\* an edge (exactly one) if and only if their similarity is at least 0.5,
\* the weight of that edge is their similarity, and no edge is a self-loop
\* whatever the diagonal holds.
C1_EdgeIffSimilar ==
    run.status # "none" =>
        /\ \A i, j \in 0..(Len(run.group) - 1) :
              i # j => /\ (EdgesBetween(i, j) # {}) <=> (SimOf(i, j) >= Threshold)
                       /\ Cardinality(EdgesBetween(i, j)) <= 1
        /\ \A e \in DOMAIN run.edge_df :
              /\ run.edge_df[e].source # run.edge_df[e].target
              /\ run.edge_df[e].weight
                    = SimOf(run.edge_df[e].source, run.edge_df[e].target)

\* a graph with an edge of similarity exactly 0.5, a stronger edge, a pair
\* below the threshold and a non-zero diagonal
C1_Witness ==
    /\ run.status = "ok"
    /\ wsem_sim[<<0, 0>>] # 0
    /\ \E e \in DOMAIN run.edge_df : run.edge_df[e].weight = Threshold
    /\ \E e \in DOMAIN run.edge_df : run.edge_df[e].weight > Threshold
    /\ \E i, j \in 0..(Len(run.group) - 1) : i # j /\ SimOf(i, j) < Threshold

\* C3: an empty group yields a payload with no nodes and no edges.
C3_EmptyGroupEmptyPayload ==
    (run.status # "none" /\ Len(run.group) = 0) =>
        (run.status = "ok" /\ run.nodes = <<>> /\ run.edges = <<>>)

\* C10: a payload has one node per group member, in group order, and the
\* source and target of every edge are ids of nodes of the payload.
C10_NodesAndEndpoints ==
    run.status = "ok" =>
        /\ Len(run.nodes) = Len(run.group)
        /\ \A i \in DOMAIN run.group : run.nodes[i].id = run.group[i].id
        /\ \A e \in DOMAIN run.edges :
              /\ \E n \in DOMAIN run.nodes : run.nodes[n].id = run.edges[e].source
              /\ \E n \in DOMAIN run.nodes : run.nodes[n].id = run.edges[e].target

\* a payload with an edge and with a member no edge touches
C10_Witness ==
    /\ run.status = "ok"
    /\ Len(run.edges) > 0
    /\ \E i \in DOMAIN run.group :
          \A e \in DOMAIN run.edges :
              run.group[i].id \notin {run.edges[e].source, run.edges[e].target}

\* the members (positions in the group) of community c of the run
MembersOf(c) == {i \in DOMAIN run.membership : run.membership[i] = c}

\* C2: whatever the number of communities, every community id has a colour,
\* the palette's colours taken in turn and again from the start after the
\* last, and the run does not fail on the colours.
C2_EveryCommunityColoured ==
    (run.status # "none" /\ Len(run.group) > 0) =>
        /\ run.status = "ok"
        /\ \A c \in Range(run.membership) :
              /\ c \in DOMAIN run.color_map
              /\ run.color_map[c] = Dark24[(c % PaletteLimit) + 1]

\* C4: a group of N >= 1 members whose graph has no edge yields a payload
\* of N nodes in N communities, no node flagged representative or carrying
\* a representative label, every hover label the sentinel.
C4_NoEdgesAllSingletons ==
    (run.status # "none" /\ Len(run.group) > 0 /\ Len(run.edge_df) = 0) =>
        /\ run.status = "ok"
        /\ Len(run.nodes) = Len(run.group)
        /\ Cardinality(Range(run.membership)) = Len(run.group)
        /\ \A i \in DOMAIN run.nodes :
              /\ ~run.nodes[i].representative
              /\ run.nodes[i].rep_label = "NaN"
              /\ run.nodes[i].rep_label_hover = "None"

\* C5: in a payload, a community of more than one member has exactly one
\* node flagged representative, a member with the most genes of the
\* community, and that node alone carries a representative label; the node
\* of a community of one member is not flagged and carries no label.
C5_RepresentativeIffMultiMember ==
    run.status = "ok" =>
        \A c \in Range(run.membership) :
            LET flagged == {i \in MembersOf(c) : run.nodes[i].representative}
                labelled == {i \in MembersOf(c) : run.nodes[i].rep_label # "NaN"}
            IN  /\ labelled = flagged
                /\ Cardinality(MembersOf(c)) = 1 => flagged = {}
                /\ Cardinality(MembersOf(c)) > 1 =>
                      /\ Cardinality(flagged) = 1
                      /\ \A i \in flagged : \A j \in MembersOf(c) :
                            run.group[j].genes <= run.group[i].genes

\* a payload with a community of one and a community of several members
\* whose gene counts differ
C5_Witness ==
    /\ run.status = "ok"
    /\ \E c \in Range(run.membership) : Cardinality(MembersOf(c)) = 1
    /\ \E c \in Range(run.membership) :
          \E i, j \in MembersOf(c) : run.group[i].genes < run.group[j].genes

\* the rows of annot of a set of term ids
AnnotRows(ids) == {annot[i] : i \in {j \in DOMAIN annot : annot[j].GO_ID \in ids}}

\* the common ancestors of a set of member ids: the terms that are an
\* ancestor of every member
CommonAncestors(M) ==
    {x \in UNION {get_ancestors(m, roots, onto_graph) : m \in M} :
        \A m \in M : x \in get_ancestors(m, roots, onto_graph)}

\* C6: in a payload, the label of a community of more than one member (the
\* hover label of its nodes, the label of its representative) is the name
\* of the only common ancestor if there is exactly one; the name of a
\* member with the most genes if there is none; otherwise the name of a
\* deepest common ancestor, one with the most genes among the deepest.
C6_LabelDerivation ==
    run.status = "ok" =>
        \A c \in Range(run.membership) :
            Cardinality(MembersOf(c)) > 1 =>
                LET M == {run.group[i].id : i \in MembersOf(c)}
                    CA == CommonAncestors(M)
                    good == IF Cardinality(CA) = 1
                            THEN {r.GO_term : r \in AnnotRows(CA)}
                            ELSE IF CA = {}
                            THEN {r.GO_term : r \in {q \in AnnotRows(M) :
                                     \A t \in AnnotRows(M) : t.genes <= q.genes}}
                            ELSE {r.GO_term : r \in {q \in AnnotRows(CA) :
                                     \A t \in AnnotRows(CA) :
                                        \/ t.depth < q.depth
                                        \/ t.depth = q.depth /\ t.genes <= q.genes}}
                IN  /\ \A i \in MembersOf(c) : run.nodes[i].rep_label_hover \in good
                    /\ \A i \in MembersOf(c) :
                          run.nodes[i].representative =>
                              run.nodes[i].rep_label = run.nodes[i].rep_label_hover

\* a payload with a community that has several common ancestors, two of
\* them deepest with different gene counts
C6_Witness ==
    /\ run.status = "ok"
    /\ \E c \in Range(run.membership) :
          /\ Cardinality(MembersOf(c)) > 1
          /\ \E a, b \in AnnotRows(CommonAncestors({run.group[i].id : i \in MembersOf(c)})) :
                /\ a.depth = b.depth
                /\ a.genes < b.genes
                /\ \A t \in AnnotRows(CommonAncestors(
                                {run.group[i].id : i \in MembersOf(c)})) :
                      t.depth <= a.depth

\* the simple paths that start at node a: the least set that holds <<a>> and
\* every extension of one of its paths by a neighbour not yet on the path
RECURSIVE SimplePathsFrom(_, _)
SimplePathsFrom(S, graph) ==
    LET next(p) == IF p[Len(p)] \in DOMAIN graph
                   THEN Range(graph[p[Len(p)]]) \ Range(p) ELSE {}
        T == S \cup UNION {{Append(p, x) : x \in next(p)} : p \in S}
    IN  IF T = S THEN S ELSE SimplePathsFrom(T, graph)

\* C7: get_ancestors returns a non-empty set: the nodes on the simple paths
\* from the node to a root, or the node alone when there is no such path.
C7_AncestorsAreRootPathNodes ==
    call.node # "none" =>
        LET on_paths == UNION {Range(p) :
                p \in {q \in SimplePathsFrom({<<call.node>>}, onto_graph) :
                          q[Len(q)] \in Range(roots)}}
        IN  /\ call.result # {}
            /\ call.result = IF on_paths = {} THEN {call.node} ELSE on_paths

RECURSIVE cycle_seen(_, _, _, _)
RECURSIVE cycle_seen_loop(_, _, _, _, _)

\* whether the loop of find_all_paths meets a neighbour that is already on
\* its path, from the k-th neighbour on
cycle_seen_loop(graph, nbrs, k, end, path) ==
    IF k > Len(nbrs) THEN FALSE
    ELSE \/ IF InSeq(nbrs[k], path) THEN TRUE
            ELSE cycle_seen(graph, nbrs[k], end, path)
         \/ cycle_seen_loop(graph, nbrs, k + 1, end, path)

\* whether find_all_paths(graph, start, end, path0) meets a cycle
cycle_seen(graph, start, end, path0) ==
    IF start = end \/ start \notin DOMAIN graph THEN FALSE
    ELSE cycle_seen_loop(graph, graph[start], 1, end, Append(path0, start))

\* a call that follows paths of three nodes through a graph with a cycle
C7_Witness ==
    /\ call.node # "none"
    /\ Cardinality(call.result) >= 3
    /\ \E r \in DOMAIN roots : cycle_seen(onto_graph, call.node, roots[r], <<>>)

\* C8: no payload is returned by a run whose ancestor search met a cycle.
C8_CycleAborts ==
    run.status = "ok" =>
        \A k \in DOMAIN run.comm_members :
            \A m \in Range(run.comm_members[k].members) :
                \A r \in DOMAIN roots :
                    ~cycle_seen(onto_graph, m, roots[r], <<>>)

\* C9: no payload is returned for a group with a member whose id is neither
\* a key of the ontology graph nor a root.
C9_AbsentTermAborts ==
    run.status = "ok" =>
        \A i \in DOMAIN run.group :
            run.group[i].id \in DOMAIN onto_graph \cup Range(roots)

(***************************************************************************)
(* Two requests in flight.  Dash serves each callback on its own worker;   *)
(* the workers share the module-level data and nothing else.  Under        *)
(* SpecPar 'run' holds the locals of both requests, and a request advances *)
(* by the statements of draw_graph and get_cytoscape_components that read  *)
(* or could write the shared data.                                         *)
(***************************************************************************)
Requests == {"first", "second"}

Idle == [pc |-> "idle", tissue |-> "none", values |-> <<>>, locals |-> Locals0]

\* variant: wsem_sim[ind,:][:,ind] is a view, so line 151 writes the zeroes
\* into the shared matrix
wsem_sim_thresholded_in_place(sim, group) ==
    LET inds == {group[i].ind : i \in DOMAIN group}
    IN  [p \in DOMAIN sim |->
            IF p[1] \in inds /\ p[2] \in inds THEN threshold(sim[p]) ELSE sim[p]]

\* wsem_sim after lines 147-151: indexing with an index array copies, the
\* zeroes of line 151 go to the copy
wsem_sim_after_threshold(sim, group) == sim

\* a callback is invoked with the values of its two inputs
begin_request(w, tissue, values) ==
    /\ run[w].pc = "idle"
    /\ run' = [run EXCEPT ![w] = [Idle EXCEPT !.pc = "select",
                                             !.tissue = tissue,
                                             !.values = values]]
    /\ UNCHANGED <<inputs, call>>

draw_graph1_begin(w, tissue, values) == begin_request(w, tissue, values)

draw_graph2_begin(w, tissue, values) == begin_request(w, tissue, values)

\* lines 629-630 (637-638): data_sig, a new frame
select_rows(w) ==
    /\ run[w].pc = "select"
    /\ run' = [run EXCEPT ![w].pc = "build",
                          ![w].locals.group =
                              data_sig_of(wilcox_results, run[w].tissue,
                                          run[w].values)]
    /\ UNCHANGED <<inputs, call>>

\* lines 147-160: the thresholded similarities, the graph, the layout and
\* the edge list
build_graph(w) ==
    /\ run[w].pc = "build"
    /\ \E group \in {run[w].locals.group} :
        /\ \E edge_df \in {Weighted_Adjacency(group, wsem_sim)} :
              run' = [run EXCEPT
                        ![w].pc = IF layout_unpacks(group)
                                  THEN "community" ELSE "done",
                        ![w].locals =
                            [@ EXCEPT !.edge_df = edge_df,
                                      !.es = edge_tuples(group, edge_df),
                                      !.status = IF layout_unpacks(group)
                                                 THEN "none" ELSE "ValueError"]]
        /\ wsem_sim' = wsem_sim_after_threshold(wsem_sim, group)
    /\ UNCHANGED <<annot, roots, wilcox_results, onto_graph, call>>

\* lines 163-164
detect_communities(w) ==
    /\ run[w].pc = "community"
    /\ \E m \in community_multilevel(Len(run[w].locals.group),
                                     run[w].locals.edge_df) :
          run' = [run EXCEPT ![w].pc = "label", ![w].locals.membership = m]
    /\ UNCHANGED <<inputs, call>>

\* lines 166-264: they read annot, roots and onto_graph
label_and_render(w) ==
    /\ run[w].pc = "label"
    /\ \E result \in after_community(run[w].locals, run[w].locals.membership,
                                     annot, roots, onto_graph) :
          run' = [run EXCEPT ![w].pc = "done", ![w].locals = result]
    /\ UNCHANGED <<inputs, call>>

\* the callback returns (or its exception leaves it)
return_payload(w) ==
    /\ run[w].pc = "done"
    /\ run' = [run EXCEPT ![w] = Idle]
    /\ UNCHANGED <<inputs, call>>

\* consecutive terms are similar, the other pairs are not
ChainMatrix(n, d) ==
    [p \in (0..(n - 1)) \X (0..(n - 1)) |->
        IF p[1] = p[2] THEN d
        ELSE IF p[1] - p[2] \in {-1, 1} THEN 8 ELSE 3]

InitPar ==
    /\ annot = AnnotOf(MaxTerms, StarDepth(MaxTerms), MixedGenes(MaxTerms))
    /\ roots = RootsOf(annot)
    /\ \E d \in DiagVals : wsem_sim = ChainMatrix(MaxTerms, d)
    /\ onto_graph = StarGraph(MaxTerms)
    /\ wilcox_results = WilcoxOf(annot, MaxTerms - 1)
    /\ run = [w \in Requests |-> Idle]
    /\ call = NoCall

NextPar ==
    \/ \E w \in Requests, tissue \in Tissues :
          draw_graph1_begin(w, tissue, TopWindow)
    \/ \E w \in Requests, tissue \in Tissues :
          draw_graph2_begin(w, tissue, TopWindow)
    \/ \E w \in Requests : select_rows(w)
    \/ \E w \in Requests : build_graph(w)
    \/ \E w \in Requests : detect_communities(w)
    \/ \E w \in Requests : label_and_render(w)
    \/ \E w \in Requests : return_payload(w)

SpecPar == InitPar /\ [][NextPar]_vars

\* the results of the request of w run alone on the shared data as they
\* are now, for the partition the request found
alone(w) ==
    {r \in get_cytoscape_components(
               data_sig_of(wilcox_results, run[w].tissue, run[w].values),
               wsem_sim, annot, roots, onto_graph) :
        r.membership = run[w].locals.membership}

PayloadAsAlone ==
    \A w \in Requests : run[w].pc = "done" => run[w].locals \in alone(w)

\* C11: no step of two interleaved requests changes wsem_sim,
\* wilcox_results, annot, roots or onto_graph, and a finished request holds
\* the result it has when run alone on the same data with the same
\* partition.
C11_RequestsIndependent ==
    /\ [][inputs' = inputs]_vars
    /\ []PayloadAsAlone

\* one request has returned a payload with an edge while the other, on
\* another group, is between its statements
C11_Witness ==
    \E w, v \in Requests :
        /\ w # v
        /\ run[w].pc = "done"
        /\ run[w].locals.status = "ok"
        /\ run[w].locals.edges # <<>>
        /\ run[v].pc \in {"community", "label"}
        /\ run[v].locals.group # run[w].locals.group
        /\ \E p \in DOMAIN wsem_sim : wsem_sim[p] # 0 /\ wsem_sim[p] < Threshold

(***************************************************************************)
(* Specification of find_all_paths alone: any adjacency of the terms       *)
(* (cyclic, with missing keys), any start and end, one of them possibly    *)
(* no term of the graph.                                                   *)
(***************************************************************************)
RECURSIVE find_all_paths_calls(_, _, _, _)
RECURSIVE find_all_paths_calls_loop(_, _, _, _, _)

\* the invocations of find_all_paths the loop over graph[start] makes, from
\* its k-th entry on
find_all_paths_calls_loop(graph, nbrs, k, end, path) ==
    IF k > Len(nbrs) THEN 0
    ELSE (IF ~InSeq(nbrs[k], path)
          THEN find_all_paths_calls(graph, nbrs[k], end, path) ELSE 0)
         + find_all_paths_calls_loop(graph, nbrs, k + 1, end, path)

\* the invocations of find_all_paths that one call makes, itself included
find_all_paths_calls(graph, start, end, path0) ==
    IF start = end \/ start \notin DOMAIN graph THEN 1
    ELSE 1 + find_all_paths_calls_loop(graph, graph[start], 1, end,
                                       Append(path0, start))

NoPathsCall == [node |-> "none", end |-> "none", result |-> <<>>, calls |-> 0]

InitPaths ==
    /\ annot = AnnotOf(MaxTerms, StarDepth(MaxTerms), MixedGenes(MaxTerms))
    /\ roots = RootsOf(annot)
    /\ onto_graph \in OntoGraphs(MaxTerms)
    /\ wsem_sim = [p \in (0..(MaxTerms - 1)) \X (0..(MaxTerms - 1)) |-> 0]
    /\ wilcox_results = <<>>
    /\ run = NoRun
    /\ call = NoPathsCall

call_find_all_paths(start, end) ==
    /\ call.node = "none"
    /\ call' = [node |-> start, end |-> end,
                result |-> find_all_paths(onto_graph, start, end, <<>>),
                calls |-> find_all_paths_calls(onto_graph, start, end, <<>>)]
    /\ UNCHANGED <<inputs, run>>

NextPaths ==
    \E i, j \in 1..(MaxTerms + 1) : call_find_all_paths(GO_ID(i), GO_ID(j))

SpecPaths == InitPaths /\ [][NextPaths]_vars

\* C12: a call of find_all_paths ends, after no more invocations than there
\* are simple paths out of start, and returns the simple paths from start to
\* end, each once: every returned path begins with start, ends with end and
\* repeats no node; the result is empty when end cannot be reached.
C12_ExactlyTheSimplePaths ==
    call.node # "none" =>
        \A from \in {SimplePathsFrom({<<call.node>>}, onto_graph)} :
            LET simple == {q \in from : q[Len(q)] = call.end}
            IN  /\ Range(call.result) = simple
                /\ Len(call.result) = Cardinality(simple)
                /\ \A i \in DOMAIN call.result :
                      LET p == call.result[i]
                      IN  /\ p[1] = call.node
                          /\ p[Len(p)] = call.end
                          /\ Cardinality(Range(p)) = Len(p)
                /\ simple = {} => call.result = <<>>
                /\ call.calls >= 1
                /\ call.calls <= Cardinality(from)

\* a call on a graph with a cycle that returns several paths, one of them
\* through a third node
C12_Witness ==
    /\ call.node # "none"
    /\ call.node # call.end
    /\ Len(call.result) >= 2
    /\ \E i \in DOMAIN call.result : Len(call.result[i]) >= 3
    /\ cycle_seen(onto_graph, call.node, call.end, <<>>)

(***************************************************************************)
(* SpecChain: a chain of similar terms, the smallest group that the        *)
(* community detection splits between two linked terms.                    *)
(***************************************************************************)
\* number of terms of the chain
ChainTerms == 4

InitChain ==
    \E d \in DiagVals, k \in 0..ChainTerms :
        Loaded(AnnotOf(ChainTerms, StarDepth(ChainTerms), MixedGenes(ChainTerms)),
               ChainMatrix(ChainTerms, d), StarGraph(ChainTerms), k)

SpecChain == InitChain /\ [][Next]_vars

\* the colour the stylesheet gives to the elements of class cl
ClassColours(cl) ==
    {run.stylesheet[k].color :
        k \in {j \in DOMAIN run.stylesheet :
                  run.stylesheet[j].selector = "." \o cl}}

\* C13: in a payload, every node carries a class that the stylesheet colours
\* with the colour of the node's community, and so does every edge that has
\* the node as its source or as its target.
C13_IncidentEdgesShareColour ==
    run.status = "ok" =>
        \A i \in DOMAIN run.nodes :
            /\ ClassColours(run.nodes[i].classes)
                  = {run.color_map[run.membership[i]]}
            /\ \A e \in DOMAIN run.edges :
                  run.nodes[i].id \in {run.edges[e].source, run.edges[e].target}
                      => ClassColours(run.edges[e].classes)
                            = {run.color_map[run.membership[i]]}

====
